---- MODULE Spec2Model ----
(***************************************************************************)
(* The escape-room coordination server (src/server.py): the shared         *)
(* game_state dictionary, the countdown_timer background task, and the     *)
(* Socket.IO event handlers, each of which runs on a thread of its own     *)
(* (async_mode='threading') with no lock around game_state.                *)
(*                                                                         *)
(* A handler or background task is a thread with a position (pc) and its   *)
(* local variables; the threads alive form a bag, since nothing tells two  *)
(* threads in the same position apart.  countdown_timer and                *)
(* handle_abort_button are taken statement by statement (a run of          *)
(* consecutive assignments to game_state is one step).  In the other       *)
(* handlers the guard and the assignments that follow it are one step, and *)
(* a handler whose guard fails returns in a step of its own.               *)
(* Every sleep is a step of its own, and so is every emit (two emits in a  *)
(* row are one step).  A local variable is kept only as long as a later    *)
(* statement of its handler reads it.                                      *)
(*                                                                         *)
(* Timestamps (datetime.now()) are integers in microseconds, the           *)
(* resolution of datetime.                                                 *)
(***************************************************************************)
EXTENDS Integers, FiniteSets, Sequences, Bags, TLC

\* ---------------------------------------------------------------- bounds
\* The full countdown (1800 in server.py) scaled down so that expiry is reached.
Duration == 2
\* Background countdown_timer tasks that can exist at the same time.
MaxTickers == 2
\* Event handlers that can be in flight at the same time.
MaxHandlers == 2
\* Timer commands that can be in flight at the same time.
MaxCommands == 1
\* How far below zero a stale decrement may take time_remaining.
MaxBelowZero == 1

\* ------------------------------------------------------------- constants
TRANSMISSION_CODE == "4815162342"
ABORT_WINDOW_SECONDS == 10
\* game_state's None (start_time, abort_buttons entries).
None == -1

Locations == {"reception", "server_room"}
\* The location of a malformed press: the field is missing, so that
\* data.get('location') is Python's None (here the string "None"), or it holds
\* another string.
Malformed == {"None", "lobby"}
\* The instants datetime.now() returns, in microseconds.
Instants == {0, 10000000, 10000001}
\* The codes a client submits: the transmission code, another string, and the
\* empty string that data.get('code', '') gives when the field is missing.
Codes == {TRANSMISSION_CODE, "0000", ""}

VARIABLES
    game_state,   \* the game_state dictionary
    tickers,      \* the countdown_timer background tasks: pc and the loaded value
    handlers,     \* the event handlers in flight: pc and locals
    now,          \* the latest reading of the clock
    emitted,      \* the events the latest step handed to socketio.emit / emit
    second_start, \* history: time_remaining when the current second began
    last_command, \* history: the timer command applied last
    sent,         \* history: broadcasts of the terminal events, per game / episode
    pending       \* history: the state changes not yet broadcast, oldest first

vars == <<game_state, tickers, handlers, now, emitted,
          second_start, last_command, sent, pending>>

hist == <<second_start, last_command, sent, pending>>

\* -------------------------------------------------------------- helpers
NoButtons == [l \in Locations |-> None]

Ticker(pc, tmp) == [pc |-> pc, tmp |-> tmp]
NoLocals == [location |-> "none", current_time |-> None, reception_time |-> None,
             server_time |-> None, code |-> "none"]
Handler(op, pc, locals) ==
    [op |-> op, pc |-> pc, location |-> locals.location,
     current_time |-> locals.current_time,
     reception_time |-> locals.reception_time,
     server_time |-> locals.server_time, code |-> locals.code]

Abs(x) == IF x < 0 THEN -x ELSE x
\* The broadcast counters count 0, 1 and "2 or more".
Bump(n) == IF n < 2 THEN n + 1 ELSE 2

\* A thread starts, takes a step, ends.
Started(threads, new) == threads (+) SetToBag({new})
Ended(threads, old) == threads (-) SetToBag({old})
Stepped(threads, old, new) == Ended(threads, old) (+) SetToBag({new})

TimerOps == {"start_timer", "pause_timer", "resume_timer", "stop_timer", "reset_game"}
Commands == {r \in BagToSet(handlers) : r.op \in TimerOps}
CanHandle == BagCardinality(handlers) < MaxHandlers
CanCommand ==
    /\ CanHandle
    /\ BagCardinality([r \in Commands |-> handlers[r]]) < MaxCommands
CanSpawn == BagCardinality(tickers) < MaxTickers

TrackedEvents == {"game_over", "self_destruct_aborted", "abort_failed_full_reset",
                  "late_abort_button_pressed"}
NoneSent == [e \in TrackedEvents |-> 0]

get_serializable_state ==
    [timer_running          |-> game_state.timer_running,
     time_remaining         |-> game_state.time_remaining,
     reception_unlocked     |-> game_state.reception_unlocked,
     transmission_shut_down |-> game_state.transmission_shut_down,
     self_destruct_active   |-> game_state.self_destruct_active,
     self_destruct_aborted  |-> game_state.self_destruct_aborted]

Event(name, to, data) == [name |-> name, to |-> to, data |-> data]
Emitted(name) == \E i \in DOMAIN emitted : emitted[i].name = name

\* A state change made by a handler or task (by), and whether a client has
\* been sent a snapshot of the state since.
Change(by) == [by |-> by, snapshot |-> FALSE]
\* The handler or task makes its state change.
Applied(by) == Append(pending, Change(by))
\* The oldest change of the handler or task that is not yet broadcast.
Oldest(by) ==
    CHOOSE i \in DOMAIN pending :
        pending[i].by = by /\ \A j \in 1..(i - 1) : pending[j].by # by
\* The handler or task broadcasts its state change.
Announced(by) ==
    [i \in 1..(Len(pending) - 1) |->
        IF i < Oldest(by) THEN pending[i] ELSE pending[i + 1]]

\* socketio.start_background_task(countdown_timer)
start_background_task == Started(tickers, Ticker("while", 0))

Init ==
    /\ game_state = [timer_running          |-> FALSE,
                     time_remaining         |-> Duration,
                     start_time             |-> None,
                     reception_unlocked     |-> FALSE,
                     transmission_shut_down |-> FALSE,
                     self_destruct_active   |-> FALSE,
                     self_destruct_aborted  |-> FALSE,
                     abort_buttons          |-> NoButtons]
    /\ tickers = EmptyBag
    /\ handlers = EmptyBag
    /\ now = 0
    /\ emitted = <<>>
    /\ second_start = Duration
    /\ last_command = "none"
    /\ sent = NoneSent
    /\ pending = <<>>

\* ------------------------------------------------------- handle_connect
\* emit('game_state', get_serializable_state()), to the client that connects
handle_connect ==
    /\ emitted' = <<Event("game_state", "requester", get_serializable_state)>>
    /\ pending' = [i \in DOMAIN pending |-> [pending[i] EXCEPT !.snapshot = TRUE]]
    /\ UNCHANGED <<game_state, tickers, handlers, now,
                   second_start, last_command, sent>>

\* ------------------------------------------------------ countdown_timer
\* while game_state['timer_running'] and game_state['time_remaining'] > 0:
countdown_while(t) ==
    /\ t.pc = "while"
    /\ tickers' = Stepped(tickers, t,
            IF game_state.timer_running /\ game_state.time_remaining > 0
            THEN Ticker("sleep", 0) ELSE Ticker("if", 0))
    /\ emitted' = <<>>
    /\ UNCHANGED <<game_state, handlers, now, hist>>

\* One second passes: every task inside time.sleep(1) returns from it.
SecondElapses ==
    /\ BagIn(Ticker("sleep", 0), tickers)
    /\ tickers' = [t \in {Ticker("load", 0)} |-> tickers[Ticker("sleep", 0)]]
                  (+) [t \in BagToSet(tickers) \ {Ticker("sleep", 0)} |-> tickers[t]]
    /\ second_start' = game_state.time_remaining
    /\ emitted' = <<>>
    /\ UNCHANGED <<game_state, handlers, now, last_command, sent, pending>>

\* game_state['time_remaining'] -= 1, the read
countdown_load(t) ==
    /\ t.pc = "load"
    /\ tickers' = Stepped(tickers, t, Ticker("store", game_state.time_remaining))
    /\ emitted' = <<>>
    /\ UNCHANGED <<game_state, handlers, now, hist>>

\* game_state['time_remaining'] -= 1, the write
countdown_store(t) ==
    /\ t.pc = "store"
    /\ t.tmp > -MaxBelowZero
    /\ game_state' = [game_state EXCEPT !.time_remaining = t.tmp - 1]
    /\ tickers' = Stepped(tickers, t, Ticker("emit", 0))
    /\ emitted' = <<>>
    /\ pending' = Applied("countdown_timer")
    /\ UNCHANGED <<handlers, now, second_start, last_command, sent>>

\* socketio.emit('timer_update', {'time_remaining': ...})
countdown_emit(t) ==
    /\ t.pc = "emit"
    /\ emitted' = <<Event("timer_update", "all",
                          [time_remaining |-> game_state.time_remaining])>>
    /\ tickers' = Stepped(tickers, t, Ticker("while", 0))
    /\ pending' = Announced("countdown_timer")
    /\ UNCHANGED <<game_state, handlers, now, second_start, last_command, sent>>

\* The test after the loop without the case of 0
expired_below_zero(gs) == gs.time_remaining < 0

\* game_state['time_remaining'] <= 0
expired(gs) == gs.time_remaining <= 0

\* if game_state['time_remaining'] <= 0:
countdown_if(t) ==
    /\ t.pc = "if"
    /\ tickers' = IF expired(game_state)
                  THEN Stepped(tickers, t, Ticker("expire", 0))
                  ELSE Ended(tickers, t)
    /\ emitted' = <<>>
    /\ UNCHANGED <<game_state, handlers, now, hist>>

\* timer_running = False; reception_unlocked = True
countdown_expire(t) ==
    /\ t.pc = "expire"
    /\ game_state' = [game_state EXCEPT !.timer_running = FALSE,
                                        !.reception_unlocked = TRUE]
    /\ tickers' = Stepped(tickers, t, Ticker("game_over", 0))
    /\ emitted' = <<>>
    /\ pending' = Applied("countdown_timer")
    /\ UNCHANGED <<handlers, now, second_start, last_command, sent>>

\* socketio.emit('game_over', {'success': False})
countdown_game_over(t) ==
    /\ t.pc = "game_over"
    /\ emitted' = <<Event("game_over", "all", [success |-> FALSE])>>
    /\ tickers' = Ended(tickers, t)
    /\ sent' = [sent EXCEPT !["game_over"] = Bump(@)]
    /\ pending' = Announced("countdown_timer")
    /\ UNCHANGED <<game_state, handlers, now, second_start, last_command>>

\* ------------------------------------------------------- timer commands
\* handle_start_timer: the assignments and start_background_task
handle_start_timer ==
    /\ CanCommand
    /\ CanSpawn
    /\ game_state' = [game_state EXCEPT
            !.timer_running = TRUE,
            !.start_time = now,
            !.time_remaining = Duration,
            !.reception_unlocked = FALSE,
            !.transmission_shut_down = FALSE,
            !.self_destruct_active = FALSE,
            !.self_destruct_aborted = FALSE,
            !.abort_buttons = NoButtons]
    /\ tickers' = start_background_task
    /\ handlers' = Started(handlers, Handler("start_timer", "emit", NoLocals))
    /\ last_command' = "start_timer"
    /\ sent' = NoneSent
    /\ pending' = Applied("start_timer")
    /\ emitted' = <<>>
    /\ UNCHANGED <<now, second_start>>

\* socketio.emit('timer_started', get_serializable_state())
\* socketio.emit('play_audio', {'clip': 'start'})
start_timer_emit(h) ==
    /\ h.op = "start_timer" /\ h.pc = "emit"
    /\ emitted' = <<Event("timer_started", "all", get_serializable_state),
                    Event("play_audio", "all", [clip |-> "start"])>>
    /\ handlers' = Ended(handlers, h)
    /\ pending' = Announced("start_timer")
    /\ UNCHANGED <<game_state, tickers, now, second_start, last_command, sent>>

\* handle_pause_timer: if game_state['timer_running']: timer_running = False
handle_pause_timer ==
    /\ CanCommand
    /\ IF game_state.timer_running
       THEN /\ game_state' = [game_state EXCEPT !.timer_running = FALSE]
            /\ handlers' = Started(handlers, Handler("pause_timer", "emit", NoLocals))
            /\ last_command' = "pause_timer"
            /\ pending' = Applied("pause_timer")
       ELSE /\ handlers' = Started(handlers, Handler("pause_timer", "return", NoLocals))
            /\ UNCHANGED <<game_state, last_command, pending>>
    /\ emitted' = <<>>
    /\ UNCHANGED <<tickers, now, second_start, sent>>

\* handle_pause_timer returns, the if not taken
pause_timer_return(h) ==
    /\ h.op = "pause_timer" /\ h.pc = "return"
    /\ handlers' = Ended(handlers, h)
    /\ emitted' = <<>>
    /\ UNCHANGED <<game_state, tickers, now, hist>>

\* socketio.emit('timer_paused', get_serializable_state())
pause_timer_emit(h) ==
    /\ h.op = "pause_timer" /\ h.pc = "emit"
    /\ emitted' = <<Event("timer_paused", "all", get_serializable_state)>>
    /\ handlers' = Ended(handlers, h)
    /\ pending' = Announced("pause_timer")
    /\ UNCHANGED <<game_state, tickers, now, second_start, last_command, sent>>

\* The test of handle_resume_timer without 'not timer_running'
can_resume_while_running(gs) == gs.time_remaining > 0

\* if not game_state['timer_running'] and game_state['time_remaining'] > 0:
can_resume(gs) == ~gs.timer_running /\ gs.time_remaining > 0

\* handle_resume_timer: if not timer_running and time_remaining > 0:
\*     timer_running = True; start_background_task(countdown_timer)
handle_resume_timer ==
    /\ CanCommand
    /\ can_resume(game_state) => CanSpawn
    /\ IF can_resume(game_state)
       THEN /\ game_state' = [game_state EXCEPT !.timer_running = TRUE]
            /\ tickers' = start_background_task
            /\ handlers' = Started(handlers, Handler("resume_timer", "emit", NoLocals))
            /\ last_command' = "resume_timer"
            /\ pending' = Applied("resume_timer")
       ELSE /\ handlers' = Started(handlers, Handler("resume_timer", "return", NoLocals))
            /\ UNCHANGED <<game_state, tickers, last_command, pending>>
    /\ emitted' = <<>>
    /\ UNCHANGED <<now, second_start, sent>>

\* handle_resume_timer returns, the if not taken
resume_timer_return(h) ==
    /\ h.op = "resume_timer" /\ h.pc = "return"
    /\ handlers' = Ended(handlers, h)
    /\ emitted' = <<>>
    /\ UNCHANGED <<game_state, tickers, now, hist>>

\* socketio.emit('timer_resumed', get_serializable_state())
resume_timer_emit(h) ==
    /\ h.op = "resume_timer" /\ h.pc = "emit"
    /\ emitted' = <<Event("timer_resumed", "all", get_serializable_state)>>
    /\ handlers' = Ended(handlers, h)
    /\ pending' = Announced("resume_timer")
    /\ UNCHANGED <<game_state, tickers, now, second_start, last_command, sent>>

\* handle_stop_timer: the assignments
handle_stop_timer ==
    /\ CanCommand
    /\ game_state' = [game_state EXCEPT
            !.timer_running = FALSE,
            !.time_remaining = Duration,
            !.reception_unlocked = FALSE,
            !.transmission_shut_down = FALSE,
            !.self_destruct_active = FALSE,
            !.self_destruct_aborted = FALSE,
            !.abort_buttons = NoButtons]
    /\ handlers' = Started(handlers, Handler("stop_timer", "emit", NoLocals))
    /\ last_command' = "stop_timer"
    /\ sent' = NoneSent
    /\ pending' = Applied("stop_timer")
    /\ emitted' = <<>>
    /\ UNCHANGED <<tickers, now, second_start>>

\* socketio.emit('timer_stopped', get_serializable_state())
stop_timer_emit(h) ==
    /\ h.op = "stop_timer" /\ h.pc = "emit"
    /\ emitted' = <<Event("timer_stopped", "all", get_serializable_state)>>
    /\ handlers' = Ended(handlers, h)
    /\ pending' = Announced("stop_timer")
    /\ UNCHANGED <<game_state, tickers, now, second_start, last_command, sent>>

\* handle_reset_game: the assignments
handle_reset_game ==
    /\ CanCommand
    /\ game_state' = [game_state EXCEPT
            !.timer_running = FALSE,
            !.time_remaining = Duration,
            !.start_time = None,
            !.reception_unlocked = FALSE,
            !.transmission_shut_down = FALSE,
            !.self_destruct_active = FALSE,
            !.self_destruct_aborted = FALSE,
            !.abort_buttons = NoButtons]
    /\ handlers' = Started(handlers, Handler("reset_game", "emit", NoLocals))
    /\ last_command' = "reset_game"
    /\ sent' = NoneSent
    /\ pending' = Applied("reset_game")
    /\ emitted' = <<>>
    /\ UNCHANGED <<tickers, now, second_start>>

\* socketio.emit('game_reset', get_serializable_state())
reset_game_emit(h) ==
    /\ h.op = "reset_game" /\ h.pc = "emit"
    /\ emitted' = <<Event("game_reset", "all", get_serializable_state)>>
    /\ handlers' = Ended(handlers, h)
    /\ pending' = Announced("reset_game")
    /\ UNCHANGED <<game_state, tickers, now, second_start, last_command, sent>>

\* ------------------------------------------- handle_transmission_code
\* code = data.get('code', ''); emit('transmission_verifying', {'code': code})
handle_transmission_code(code) ==
    /\ CanHandle
    /\ handlers' = Started(handlers,
            Handler("check_transmission_code", "sleep", [NoLocals EXCEPT !.code = code]))
    /\ emitted' = <<Event("transmission_verifying", "requester", [code |-> code])>>
    /\ UNCHANGED <<game_state, tickers, now, hist>>

\* The acceptance without self_destruct_active = True
transmission_accepted_not_active(gs) ==
    [gs EXCEPT !.transmission_shut_down = TRUE,
               !.abort_buttons = NoButtons]

\* The assignments made when the code is the transmission code
transmission_accepted(gs) ==
    [gs EXCEPT !.transmission_shut_down = TRUE,
               !.self_destruct_active = TRUE,
               !.abort_buttons = NoButtons]

\* time.sleep(2) returns; if code == TRANSMISSION_CODE: the assignments
transmission_code_verify(h) ==
    /\ h.op = "check_transmission_code" /\ h.pc = "sleep"
    /\ IF h.code = TRANSMISSION_CODE
       THEN /\ game_state' = transmission_accepted(game_state)
            /\ handlers' = Stepped(handlers, h,
                    [h EXCEPT !.pc = "emit_shutdown", !.code = "none"])
            /\ sent' = [sent EXCEPT !["self_destruct_aborted"] = 0,
                                    !["abort_failed_full_reset"] = 0,
                                    !["late_abort_button_pressed"] = 0]
            /\ pending' = Applied("check_transmission_code")
       ELSE /\ handlers' = Stepped(handlers, h,
                    [h EXCEPT !.pc = "emit_invalid", !.code = "none"])
            /\ UNCHANGED <<game_state, sent, pending>>
    /\ emitted' = <<>>
    /\ UNCHANGED <<tickers, now, second_start, last_command>>

\* socketio.emit('transmission_shutdown', {'success': True, ...})
\* socketio.emit('play_audio', {'clip': 'alarm'})
transmission_code_emit_shutdown(h) ==
    /\ h.op = "check_transmission_code" /\ h.pc = "emit_shutdown"
    /\ emitted' = <<Event("transmission_shutdown", "all",
                          [success |-> TRUE, self_destruct_active |-> TRUE]),
                    Event("play_audio", "all", [clip |-> "alarm"])>>
    /\ handlers' = Ended(handlers, h)
    /\ pending' = Announced("check_transmission_code")
    /\ UNCHANGED <<game_state, tickers, now, second_start, last_command, sent>>

\* The rejection sent to every client
transmission_rejected_broadcast ==
    Event("transmission_shutdown", "all",
          [success |-> FALSE, message |-> "INVALID CODE - ACCESS DENIED"])

\* emit(...) inside a handler, without broadcast: to the requesting client
transmission_rejected ==
    Event("transmission_shutdown", "requester",
          [success |-> FALSE, message |-> "INVALID CODE - ACCESS DENIED"])

\* emit('transmission_shutdown', {'success': False, 'message': ...})
transmission_code_emit_invalid(h) ==
    /\ h.op = "check_transmission_code" /\ h.pc = "emit_invalid"
    /\ emitted' = <<transmission_rejected>>
    /\ handlers' = Ended(handlers, h)
    /\ UNCHANGED <<game_state, tickers, now, hist>>

\* ------------------------------------------------- handle_abort_button
\* (reception_time - server_time).total_seconds(), in microseconds
total_seconds(reception_time, server_time) == reception_time - server_time

\* time_diff = abs((reception_time - server_time).total_seconds())
time_diff(reception_time, server_time) ==
    Abs(total_seconds(reception_time, server_time))

\* The comparison made exclusive
within_window_exclusive(diff) == diff < ABORT_WINDOW_SECONDS * 1000000

\* time_diff <= ABORT_WINDOW_SECONDS
within_window(diff) == diff <= ABORT_WINDOW_SECONDS * 1000000

\* round(time_diff, 2), in hundredths of a second (no instant of Instants
\* lies half way between two hundredths)
round2(diff) == (diff + 5000) \div 10000

\* location = data.get('location'); current_time = datetime.now()
handle_abort_button(location) ==
    /\ CanHandle
    /\ \E t \in Instants :
        /\ t >= now
        /\ now' = t
        /\ handlers' = Started(handlers,
                Handler("abort_button_press", "guard",
                        [NoLocals EXCEPT !.location = location, !.current_time = t]))
    /\ emitted' = <<>>
    /\ UNCHANGED <<game_state, tickers, hist>>

\* if not self_destruct_active or self_destruct_aborted: return
abort_guard(h) ==
    /\ h.op = "abort_button_press" /\ h.pc = "guard"
    /\ handlers' = IF ~game_state.self_destruct_active
                      \/ game_state.self_destruct_aborted
                   THEN Ended(handlers, h)
                   ELSE Stepped(handlers, h, [h EXCEPT !.pc = "record"])
    /\ emitted' = <<>>
    /\ UNCHANGED <<game_state, tickers, now, hist>>

\* game_state['abort_buttons'][location] = current_time
abort_record(h) ==
    /\ h.op = "abort_button_press" /\ h.pc = "record"
    /\ game_state' = [game_state EXCEPT !.abort_buttons =
            [l \in DOMAIN @ \cup {h.location} |->
                IF l = h.location THEN h.current_time ELSE @[l]]]
    /\ handlers' = Stepped(handlers, h,
            [h EXCEPT !.pc = "read", !.current_time = None])
    /\ emitted' = <<>>
    /\ pending' = Applied("abort_button_press")
    /\ UNCHANGED <<tickers, now, second_start, last_command, sent>>

\* reception_time = abort_buttons['reception']; server_time = abort_buttons['server_room']
abort_read(h) ==
    /\ h.op = "abort_button_press" /\ h.pc = "read"
    /\ handlers' = Stepped(handlers, h,
            [h EXCEPT !.reception_time = game_state.abort_buttons["reception"],
                      !.server_time = game_state.abort_buttons["server_room"],
                      !.pc = "decide"])
    /\ emitted' = <<>>
    /\ UNCHANGED <<game_state, tickers, now, hist>>

\* The success branch without timer_running = False
abort_success_still_running(gs) ==
    [gs EXCEPT !.self_destruct_aborted = TRUE,
               !.self_destruct_active = FALSE,
               !.reception_unlocked = TRUE]

\* The assignments of the success branch
abort_success(gs) ==
    [gs EXCEPT !.self_destruct_aborted = TRUE,
               !.self_destruct_active = FALSE,
               !.timer_running = FALSE,
               !.reception_unlocked = TRUE]

\* The failure branch without transmission_shut_down = False
abort_failed_still_shut_down(gs) ==
    [gs EXCEPT !.abort_buttons = NoButtons,
               !.self_destruct_active = FALSE]

\* The assignments of the failure branch
abort_failed(gs) ==
    [gs EXCEPT !.abort_buttons = NoButtons,
               !.self_destruct_active = FALSE,
               !.transmission_shut_down = FALSE]

\* if reception_time and server_time: / if time_diff <= ABORT_WINDOW_SECONDS: / else
abort_branch(reception_time, server_time) ==
    IF reception_time # None /\ server_time # None
    THEN IF within_window(time_diff(reception_time, server_time))
         THEN "emit_aborted" ELSE "emit_failed"
    ELSE "emit_pressed"

\* The assignments of the branch taken
abort_apply(gs, reception_time, server_time) ==
    CASE abort_branch(reception_time, server_time) = "emit_aborted" -> abort_success(gs)
      [] abort_branch(reception_time, server_time) = "emit_failed" -> abort_failed(gs)
      [] OTHER -> gs

\* The event of the branch taken
abort_event(location, reception_time, server_time) ==
    CASE abort_branch(reception_time, server_time) = "emit_aborted" ->
            Event("self_destruct_aborted", "all",
                  [success |-> TRUE,
                   time_diff |-> round2(time_diff(reception_time, server_time))])
      [] abort_branch(reception_time, server_time) = "emit_failed" ->
            Event("abort_failed_full_reset", "all",
                  [reason |-> "not_simultaneous",
                   time_diff |-> round2(time_diff(reception_time, server_time))])
      [] OTHER ->
            Event("abort_button_pressed", "all",
                  [location |-> location,
                   waiting_for |-> IF location = "server_room"
                                   THEN "reception" ELSE "server_room"])

\* The branch is chosen and its assignments made
abort_decide(h) ==
    /\ h.op = "abort_button_press" /\ h.pc = "decide"
    /\ game_state' = abort_apply(game_state, h.reception_time, h.server_time)
    /\ LET branch == abort_branch(h.reception_time, h.server_time)
       IN  handlers' = Stepped(handlers, h,
                IF branch = "emit_pressed"
                THEN [h EXCEPT !.pc = branch, !.reception_time = None,
                               !.server_time = None]
                ELSE [h EXCEPT !.pc = branch, !.location = "none"])
    /\ emitted' = <<>>
    /\ UNCHANGED <<tickers, now, hist>>

\* socketio.emit('self_destruct_aborted', {'success': True, 'time_diff': ...})
abort_emit_aborted(h) ==
    /\ h.op = "abort_button_press" /\ h.pc = "emit_aborted"
    /\ emitted' = <<abort_event(h.location, h.reception_time, h.server_time)>>
    /\ sent' = [sent EXCEPT !["self_destruct_aborted"] = Bump(@)]
    /\ handlers' = Ended(handlers, h)
    /\ pending' = Announced("abort_button_press")
    /\ UNCHANGED <<game_state, tickers, now, second_start, last_command>>

\* socketio.emit('abort_failed_full_reset', {'reason': ..., 'time_diff': ...})
abort_emit_failed(h) ==
    /\ h.op = "abort_button_press" /\ h.pc = "emit_failed"
    /\ emitted' = <<abort_event(h.location, h.reception_time, h.server_time)>>
    /\ sent' = [sent EXCEPT !["abort_failed_full_reset"] = Bump(@)]
    /\ handlers' = Ended(handlers, h)
    /\ pending' = Announced("abort_button_press")
    /\ UNCHANGED <<game_state, tickers, now, second_start, last_command>>

\* socketio.emit('abort_button_pressed', {'location': ..., 'waiting_for': ...})
abort_emit_pressed(h) ==
    /\ h.op = "abort_button_press" /\ h.pc = "emit_pressed"
    /\ emitted' = <<abort_event(h.location, None, None)>>
    /\ sent' = IF sent["self_destruct_aborted"] + sent["abort_failed_full_reset"] > 0
               THEN [sent EXCEPT !["late_abort_button_pressed"] = Bump(@)]
               ELSE sent
    /\ handlers' = Ended(handlers, h)
    /\ pending' = Announced("abort_button_press")
    /\ UNCHANGED <<game_state, tickers, now, second_start, last_command>>

\* ---------------------------------------------------------------- Next
\* The background task's steps.
Countdown ==
    \/ SecondElapses
    \/ \E t \in BagToSet(tickers) :
        \/ countdown_while(t)
        \/ countdown_load(t)
        \/ countdown_store(t)
        \/ countdown_emit(t)
        \/ countdown_if(t)
        \/ countdown_expire(t)
        \/ countdown_game_over(t)

\* The facilitator's commands.
TimerCommands ==
    \/ handle_start_timer
    \/ handle_pause_timer
    \/ handle_resume_timer
    \/ handle_stop_timer
    \/ handle_reset_game
    \/ \E h \in BagToSet(handlers) :
        \/ start_timer_emit(h)
        \/ pause_timer_emit(h)
        \/ pause_timer_return(h)
        \/ resume_timer_emit(h)
        \/ resume_timer_return(h)
        \/ stop_timer_emit(h)
        \/ reset_game_emit(h)

\* The stations' commands.
StationCommands ==
    \/ \E code \in Codes : handle_transmission_code(code)
    \/ \E location \in Locations : handle_abort_button(location)
    \/ \E h \in BagToSet(handlers) :
        \/ transmission_code_verify(h)
        \/ transmission_code_emit_shutdown(h)
        \/ transmission_code_emit_invalid(h)
        \/ abort_guard(h)
        \/ abort_record(h)
        \/ abort_read(h)
        \/ abort_decide(h)
        \/ abort_emit_aborted(h)
        \/ abort_emit_failed(h)
        \/ abort_emit_pressed(h)

\* Abort presses whose location is not one of the two stations.
MalformedPresses == \E location \in Malformed : handle_abort_button(location)

\* A client connects or reconnects.
ClientCommands == handle_connect

Next ==
    \/ Countdown
    \/ TimerCommands
    \/ StationCommands
    \/ MalformedPresses
    \/ ClientCommands

Spec == Init /\ [][Next]_vars

NextTimer == Countdown \/ TimerCommands
SpecTimer == Init /\ [][NextTimer]_vars

\* The countdown and the facilitator's commands, with clients connecting.
NextClients == NextTimer \/ ClientCommands
SpecClients == Init /\ [][NextClients]_vars

\* The stations alone: codes and abort presses, no facilitator command.
SpecStations == Init /\ [][StationCommands]_vars

\* The stations, with malformed abort presses among the well-formed ones.
NextPresses == StationCommands \/ MalformedPresses
SpecPresses == Init /\ [][NextPresses]_vars

\* One game: start_timer is applied once, and the stations play it.
StartOnce == last_command = "none" /\ handle_start_timer
GameCommands ==
    \/ StartOnce
    \/ \E h \in BagToSet(handlers) : start_timer_emit(h)
NextGame == Countdown \/ GameCommands \/ StationCommands
SpecGame == Init /\ [][NextGame]_vars

\* The stations' codes alone.
CodeCommands ==
    \/ \E code \in Codes : handle_transmission_code(code)
    \/ \E h \in BagToSet(handlers) :
        \/ transmission_code_verify(h)
        \/ transmission_code_emit_shutdown(h)
        \/ transmission_code_emit_invalid(h)

\* One game left to run out: start_timer is applied once, the stations submit
\* codes, and no other command and no abort press arrives.  The countdown
\* task is a thread the scheduler does not starve, and time.sleep(1) returns.
NextLive == Countdown \/ GameCommands \/ CodeCommands
SpecLive == Init /\ [][NextLive]_vars /\ WF_vars(Countdown)

\* ---------------------------------------------------------------- C1
\* The countdown tasks committed to one more decrement: inside time.sleep(1)
\* or between it and the write of time_remaining.
Ticking == {t \in BagToSet(tickers) : t.pc \in {"sleep", "load", "store"}}

\* C1: at most one countdown ticking process is active at any instant, whatever
\* sequence of start_timer, pause_timer, resume_timer, stop_timer, reset_game
\* and ticks has run: the countdown_timer loops that can still decrement
\* time_remaining never number more than 1.
C1_AtMostOneTicker == BagCardinality([t \in Ticking |-> tickers[t]]) <= 1

\* ---------------------------------------------------------------- C2
\* C2: in one self-destruct episode (from the acceptance of the code on) the
\* decision is broadcast once, whatever the interleaving of the abort
\* handlers: the self_destruct_aborted and abort_failed_full_reset broadcasts
\* together number at most one, and no abort_button_pressed follows them.
C2_OneDecisionPerEpisode ==
    /\ sent["self_destruct_aborted"] + sent["abort_failed_full_reset"] <= 1
    /\ sent["late_abort_button_pressed"] = 0

\* ---------------------------------------------------------------- C3
\* C3: once stop_timer or reset_game has been applied, time_remaining is the
\* full duration and timer_running is false, and no timer_update or game_over
\* is emitted, until the next start_timer or resume_timer is applied, even if
\* a countdown tick was in progress when the command ran.
C3_StoppedStaysReset ==
    last_command \in {"stop_timer", "reset_game"} =>
        /\ game_state.time_remaining = Duration
        /\ ~game_state.timer_running
        /\ ~Emitted("timer_update")
        /\ ~Emitted("game_over")

\* ---------------------------------------------------------------- C4
\* C4: from the moment pause_timer is applied until resume_timer (or another
\* command) is applied, time_remaining does not change.
C4_PauseKeepsRemaining ==
    [][(last_command = "pause_timer" /\ last_command' = "pause_timer")
        => game_state'.time_remaining = game_state.time_remaining]_vars

\* ---------------------------------------------------------------- C5
\* C5: while the game is running, one elapsed second lowers time_remaining by
\* 1, never by 2 or more.
C5_OneDecrementPerSecond ==
    game_state.timer_running =>
        second_start - game_state.time_remaining <= 1

\* ---------------------------------------------------------------- C6
\* C6: in one game, game_over is broadcast at most once, and once it has been
\* broadcast timer_running is false, reception_unlocked is true and no
\* timer_update is emitted until the next start_timer, stop_timer or
\* reset_game.
C6_ExpiryOnce ==
    /\ sent["game_over"] <= 1
    /\ sent["game_over"] >= 1 =>
        /\ ~game_state.timer_running
        /\ game_state.reception_unlocked
        /\ ~Emitted("timer_update")

\* ---------------------------------------------------------------- C7
\* C7: time_remaining is at least 0 and at most the full duration in every
\* reachable state, under every interleaving of commands and countdown ticks.
C7_RemainingInRange ==
    /\ game_state.time_remaining >= 0
    /\ game_state.time_remaining <= Duration

\* ------------------------------------------------------- C8, C9, C10
AbortHandlers == {h \in BagToSet(handlers) : h.op = "abort_button_press"}
BothRecorded(h) == h.reception_time # None /\ h.server_time # None
\* The difference of the two timestamps a handler has read, in microseconds.
Delta(h) ==
    IF h.reception_time >= h.server_time
    THEN h.reception_time - h.server_time
    ELSE h.server_time - h.reception_time
Window == ABORT_WINDOW_SECONDS * 1000000
\* This step is handler h's, and leaves it as k / ends it.
StepOf(h, k) == k # h /\ handlers' = Stepped(handlers, h, k)
LastStepOf(h) == handlers' = Ended(handlers, h)

\* C8: a handler that has read a press of both locations takes the success
\* branch if and only if the two timestamps differ by at most 10 seconds, and
\* the failed-reset branch if and only if they differ by more: exactly 10
\* seconds is a success, one microsecond more a failed reset.
C8_WindowInclusive ==
    [][\A h \in AbortHandlers : \A k \in BagToSet(handlers') :
         (h.pc = "decide" /\ StepOf(h, k)) =>
            /\ k.pc = "emit_aborted" <=> (BothRecorded(h) /\ Delta(h) <= Window)
            /\ k.pc = "emit_failed" <=> (BothRecorded(h) /\ Delta(h) > Window)
            /\ k.pc = "emit_pressed" <=> ~BothRecorded(h)]_vars

\* Two presses are being resolved at once, one exactly 10 seconds after the
\* other location's (success), one a microsecond later (failed reset).
C8_Witness ==
    \E h, k \in AbortHandlers :
        /\ h.pc = "emit_aborted" /\ Delta(h) = Window
        /\ k.pc = "emit_failed" /\ Delta(k) = Window + 1

\* What a press leaves behind once both timestamps are recorded: the game
\* state and the event.
abort_outcome(gs, reception_time, server_time, location) ==
    LET pressed == [gs EXCEPT !.abort_buttons =
                        [l \in Locations |-> IF l = "reception" THEN reception_time
                                             ELSE server_time]]
    IN  [state |-> abort_apply(pressed, reception_time, server_time),
         event |-> abort_event(location, reception_time, server_time)]

\* C9: with the same two timestamps, reception pressed at the one and
\* server_room at the other leaves the same game state and the same event
\* (with the same time difference) as server_room pressed at the one and
\* reception at the other.
C9_AbortSymmetry ==
    \A h \in AbortHandlers :
        (h.pc = "decide" /\ BothRecorded(h)) =>
            abort_outcome(game_state, h.reception_time, h.server_time, "server_room")
            = abort_outcome(game_state, h.server_time, h.reception_time, "reception")

\* C10: the step of a press that has read both timestamps, at most 10 seconds
\* apart, sets self_destruct_aborted and reception_unlocked, clears
\* self_destruct_active and timer_running and changes nothing else; the last
\* step of that handler broadcasts self_destruct_aborted to all clients with
\* success true and the difference; no step of the handler changes
\* time_remaining.
C10_AbortWithinWindow ==
    [][\A h \in AbortHandlers :
         /\ (LastStepOf(h) \/ \E k \in BagToSet(handlers') : StepOf(h, k)) =>
               game_state'.time_remaining = game_state.time_remaining
         /\ \A k \in BagToSet(handlers') :
               (h.pc = "decide" /\ BothRecorded(h) /\ Delta(h) <= Window
                    /\ StepOf(h, k)) =>
                  /\ game_state' = [game_state EXCEPT
                                        !.self_destruct_aborted = TRUE,
                                        !.self_destruct_active = FALSE,
                                        !.timer_running = FALSE,
                                        !.reception_unlocked = TRUE]
                  /\ k.pc = "emit_aborted"
         /\ (h.pc = "emit_aborted" /\ LastStepOf(h)) =>
               /\ emitted' = <<[name |-> "self_destruct_aborted", to |-> "all",
                                data |-> [success |-> TRUE,
                                          time_diff |-> (Delta(h) + 5000) \div 10000]]>>
               /\ game_state' = game_state]_vars

\* The success has just been broadcast, with the presses 10.00 seconds apart,
\* in a game whose countdown had not run out and whose countdown task is alive.
C10_Witness ==
    /\ Emitted("self_destruct_aborted")
    /\ emitted[1].data.time_diff = 1000
    /\ game_state.self_destruct_aborted
    /\ ~game_state.self_destruct_active
    /\ ~game_state.timer_running
    /\ game_state.reception_unlocked
    /\ game_state.time_remaining > 0
    /\ tickers # EmptyBag

StopOrResetApplied ==
    \E op \in {"stop_timer", "reset_game"} :
        handlers' = Started(handlers, Handler(op, "emit", NoLocals))
\* This step is the decision of a press that has read both timestamps.
PairingDecided ==
    \E h \in AbortHandlers : \E k \in BagToSet(handlers') :
        h.pc = "decide" /\ BothRecorded(h) /\ StepOf(h, k)

\* C12: a first press only records its location's timestamp and broadcasts
\* abort_button_pressed naming the other location, every other field
\* unchanged; and a recorded press is removed only by the step that decides a
\* pairing (success or failure) or by stop_timer or reset_game.
C12_FirstPressPersists ==
    [][/\ \A h \in AbortHandlers : \A k \in BagToSet(handlers') :
            /\ (h.pc = "record" /\ StepOf(h, k)) =>
                  game_state' = [game_state EXCEPT
                                    !.abort_buttons[h.location] = h.current_time]
            /\ (h.pc = "decide" /\ ~BothRecorded(h) /\ StepOf(h, k)) =>
                  game_state' = game_state /\ k.pc = "emit_pressed"
       /\ \A h \in AbortHandlers :
            (h.pc = "emit_pressed" /\ LastStepOf(h)) =>
                /\ game_state' = game_state
                /\ emitted' = <<[name |-> "abort_button_pressed", to |-> "all",
                                 data |-> [location |-> h.location,
                                           waiting_for |->
                                              CHOOSE l \in Locations : l # h.location]]>>
       /\ \A l \in Locations :
            (game_state.abort_buttons[l] # None /\ game_state'.abort_buttons[l] = None)
                => (PairingDecided \/ StopOrResetApplied)]_vars

\* ---------------------------------------------------------------- C13
\* C13: only the latest press of a location counts: the step that records a
\* press never replaces the location's stored timestamp by an earlier one, so
\* the timestamp the pairing decision reads is that of the latest press.
C13_LatestPressCounts ==
    [][\A h \in AbortHandlers : \A k \in BagToSet(handlers') :
         (h.pc = "record" /\ StepOf(h, k)) =>
            /\ game_state.abort_buttons[h.location] <= h.current_time
            /\ game_state'.abort_buttons[h.location] = h.current_time]_vars

\* ---------------------------------------------------------------- C14
\* C14: in every state where self_destruct_active is false, both abort press
\* records are empty: they are cleared when the code is accepted and when an
\* episode resolves, by success or by failure.
C14_NoPressesUnlessActive ==
    ~game_state.self_destruct_active =>
        game_state.abort_buttons = [l \in Locations |-> None]

\* ---------------------------------------------------------------- C15
\* The countdown was started and has not been stopped or reset since.
CountdownStarted == last_command \in {"start_timer", "pause_timer", "resume_timer"}
\* The phase TransmissionDown: started, the transmission shut down, the abort
\* not resolved, the countdown not expired.
TransmissionDown ==
    /\ CountdownStarted
    /\ game_state.transmission_shut_down
    /\ ~game_state.self_destruct_aborted
    /\ ~game_state.reception_unlocked

\* C15: in every reachable state self_destruct_active is true exactly when
\* the game is in TransmissionDown; it is never true while the game is Idle,
\* Expired or Aborted.
C15_ActiveIffTransmissionDown ==
    game_state.self_destruct_active <=> TransmissionDown

\* ---------------------------------------------------------------- C16
\* C16: the flags describe exactly one phase: no reachable state has
\* timer_running together with reception_unlocked, self_destruct_active
\* together with self_destruct_aborted, or the countdown run out with the
\* exit unlocked together with self_destruct_aborted.
C16_OnePhase ==
    /\ ~(game_state.timer_running /\ game_state.reception_unlocked)
    /\ ~(game_state.self_destruct_active /\ game_state.self_destruct_aborted)
    /\ ~(game_state.time_remaining <= 0 /\ game_state.reception_unlocked
            /\ game_state.self_destruct_aborted)

\* ------------------------------------------------------- C17, C18, C19
CodeHandlers == {h \in BagToSet(handlers) : h.op = "check_transmission_code"}
\* The phase Running, by the flags.
Running ==
    /\ game_state.timer_running
    /\ ~game_state.reception_unlocked
    /\ ~game_state.transmission_shut_down
    /\ ~game_state.self_destruct_active
    /\ ~game_state.self_destruct_aborted
\* This step starts a check_transmission_code handler, k.
CodeSubmitted(k) ==
    k.op = "check_transmission_code" /\ k.pc = "sleep"
        /\ handlers' = Started(handlers, k)

\* C17: a code whose verification result is applied while the game is not
\* Running is a no-op, even the correct code: the step changes no state field
\* and the handler goes on to broadcast nothing.
C17_CodeOutsideRunningIgnored ==
    [][\A h \in CodeHandlers : \A k \in BagToSet(handlers') :
         (h.pc = "sleep" /\ ~Running /\ StepOf(h, k)) =>
            /\ game_state' = game_state
            /\ k.pc # "emit_shutdown"]_vars

\* C18: the handler of a code first sends transmission_verifying to the
\* requester; when the correct code is verified while the game is Running,
\* the step sets transmission_shut_down and self_destruct_active, clears both
\* press records and changes nothing else (timer_running and time_remaining
\* are as before); the last step of the handler broadcasts
\* transmission_shutdown with success true to all clients.
C18_CorrectCodeWhileRunning ==
    [][/\ \A k \in BagToSet(handlers') :
            CodeSubmitted(k) =>
                /\ game_state' = game_state
                /\ emitted' = <<[name |-> "transmission_verifying", to |-> "requester",
                                 data |-> [code |-> k.code]]>>
       /\ \A h \in CodeHandlers : \A k \in BagToSet(handlers') :
            (h.pc = "sleep" /\ h.code = TRANSMISSION_CODE /\ Running
                 /\ StepOf(h, k)) =>
                /\ game_state' = [game_state EXCEPT
                                      !.transmission_shut_down = TRUE,
                                      !.self_destruct_active = TRUE,
                                      !.abort_buttons = [l \in Locations |-> None]]
                /\ game_state'.timer_running
                /\ game_state'.time_remaining = game_state.time_remaining
                /\ k.pc = "emit_shutdown"
       /\ \A h \in CodeHandlers :
            (h.pc = "emit_shutdown" /\ LastStepOf(h)) =>
                /\ game_state' = game_state
                /\ emitted'[1] = [name |-> "transmission_shutdown", to |-> "all",
                                  data |-> [success |-> TRUE,
                                            self_destruct_active |-> TRUE]]]_vars

\* The acceptance has just been broadcast in a started game: TransmissionDown
\* with the countdown running and no press recorded.
C18_Witness ==
    /\ Emitted("transmission_shutdown")
    /\ emitted[1].to = "all"
    /\ emitted[1].data.success
    /\ game_state.timer_running
    /\ game_state.time_remaining > 0
    /\ game_state.transmission_shut_down
    /\ game_state.self_destruct_active
    /\ ~game_state.self_destruct_aborted
    /\ ~game_state.reception_unlocked
    /\ game_state.abort_buttons = [l \in Locations |-> None]

\* C19: an incorrect code (another string, or the empty string of a missing
\* field) changes no state field at any step of its handler, and every event
\* of the handler, the verifying event and the rejection, goes to the
\* requester only.
C19_IncorrectCodeRejected ==
    [][/\ \A k \in BagToSet(handlers') :
            (CodeSubmitted(k) /\ k.code # TRANSMISSION_CODE) =>
                /\ game_state' = game_state
                /\ \A i \in DOMAIN emitted' : emitted'[i].to = "requester"
       /\ \A h \in CodeHandlers : \A k \in BagToSet(handlers') :
            (h.pc = "sleep" /\ h.code # TRANSMISSION_CODE /\ StepOf(h, k)) =>
                /\ game_state' = game_state
                /\ emitted' = <<>>
                /\ k.pc = "emit_invalid"
       /\ \A h \in CodeHandlers :
            (h.pc = "emit_invalid" /\ LastStepOf(h)) =>
                /\ game_state' = game_state
                /\ emitted' = <<[name |-> "transmission_shutdown", to |-> "requester",
                                 data |-> [success |-> FALSE,
                                           message |-> "INVALID CODE - ACCESS DENIED"]]>>]_vars

\* The rejection has just been sent, to the requester, and the self-destruct
\* that an earlier code set off is still active.
C19_Witness ==
    /\ Emitted("transmission_shutdown")
    /\ emitted[1].to = "requester"
    /\ ~emitted[1].data.success
    /\ game_state.self_destruct_active
    /\ game_state.transmission_shut_down

\* ---------------------------------------------------------------- C20
TimerHandlers == {h \in BagToSet(handlers) : h.op \in {"pause_timer", "resume_timer"}}
\* This step starts handler k, of a pause_timer in a game that is not running
\* or of a resume_timer in a game that is running.
AppliedAgain(k) ==
    /\ handlers' = Started(handlers, k)
    /\ \/ k.op = "pause_timer" /\ ~game_state.timer_running
       \/ k.op = "resume_timer" /\ game_state.timer_running

\* C20: pause_timer while the game is paused, and resume_timer while the game
\* is running, change no state, emit no event and start no countdown task, at
\* the step that applies them and at the step that ends their handler.
C20_PauseResumeIdempotent ==
    [][/\ \A k \in BagToSet(handlers') :
            AppliedAgain(k) =>
                /\ k.pc = "return"
                /\ game_state' = game_state
                /\ tickers' = tickers
                /\ emitted' = <<>>
       /\ \A h \in TimerHandlers :
            (h.pc = "return" /\ LastStepOf(h)) =>
                /\ game_state' = game_state
                /\ tickers' = tickers
                /\ emitted' = <<>>]_vars

\* A resume_timer is being ignored in a game that an earlier resume_timer set
\* running, with its one countdown task.
C20_Witness ==
    /\ \E h \in TimerHandlers : h.op = "resume_timer" /\ h.pc = "return"
    /\ last_command = "resume_timer"
    /\ game_state.timer_running
    /\ BagCardinality(tickers) = 1

\* ---------------------------------------------------------------- C21
\* The phase Paused: pause_timer is the command applied last, the countdown
\* is not running and has not run out, and the exit is locked.
Paused ==
    /\ last_command = "pause_timer"
    /\ ~game_state.timer_running
    /\ game_state.time_remaining > 0
    /\ ~game_state.reception_unlocked
    /\ ~game_state.self_destruct_aborted
\* This step starts handler k, of a resume_timer.
ResumeIssued(k) == k.op = "resume_timer" /\ handlers' = Started(handlers, k)

\* C21: resume_timer takes effect only from Paused: issued in any other phase
\* (Idle, never started or after stop_timer / reset_game, Expired, Aborted) it
\* changes no state, starts no countdown task and goes on to emit no
\* timer_resumed.
C21_ResumeOnlyFromPaused ==
    [][\A k \in BagToSet(handlers') :
         (ResumeIssued(k) /\ ~Paused) =>
            /\ k.pc = "return"
            /\ game_state' = game_state
            /\ tickers' = tickers
            /\ emitted' = <<>>]_vars

\* ---------------------------------------------------------------- C22
\* C22: the step that applies stop_timer or reset_game, in any reachable
\* state, leaves every field of game_state at its value at process start:
\* timer_running false, time_remaining the full duration, start_time empty,
\* the four flags false and both abort press records empty.
C22_ResetRestoresInitial ==
    [][StopOrResetApplied =>
         game_state' = [timer_running          |-> FALSE,
                        time_remaining         |-> Duration,
                        start_time             |-> None,
                        reception_unlocked     |-> FALSE,
                        transmission_shut_down |-> FALSE,
                        self_destruct_active   |-> FALSE,
                        self_destruct_aborted  |-> FALSE,
                        abort_buttons          |-> [l \in Locations |-> None]]]_vars

\* ---------------------------------------------------------------- C23
\* C23: state-changing broadcasts are emitted in the order in which their
\* causes changed the state, for commands and ticks alike: the step that
\* broadcasts a change broadcasts the oldest change not yet broadcast.
C23_BroadcastsInOrder ==
    [][Len(pending') < Len(pending) => pending' = Tail(pending)]_vars

\* ---------------------------------------------------------------- C24
\* The changes not yet broadcast, without the i-th.
Without(i) ==
    [j \in 1..(Len(pending) - 1) |-> IF j < i THEN pending[j] ELSE pending[j + 1]]

\* C24: the snapshot sent to a client that connects is the game state of one
\* instant, the one at which it is sent; and no change that was applied
\* before a snapshot was taken is broadcast after it.
C24_SnapshotThenLaterEvents ==
    [][/\ Emitted("game_state")' =>
            emitted' = <<[name |-> "game_state", to |-> "requester",
                          data |-> [timer_running |-> game_state'.timer_running,
                                    time_remaining |-> game_state'.time_remaining,
                                    reception_unlocked |-> game_state'.reception_unlocked,
                                    transmission_shut_down |->
                                        game_state'.transmission_shut_down,
                                    self_destruct_active |->
                                        game_state'.self_destruct_active,
                                    self_destruct_aborted |->
                                        game_state'.self_destruct_aborted]]>>
       /\ Len(pending') < Len(pending) =>
            \E i \in DOMAIN pending :
                ~pending[i].snapshot /\ pending' = Without(i)]_vars

\* ---------------------------------------------------------------- C25
\* C25: a malformed abort press (location missing, or not one of reception
\* and server_room) is ignored in every state, also while self-destruct is
\* active: no step of its handler changes a field of game_state (no entry is
\* added to or altered in the abort press records) and none emits an event.
C25_MalformedPressIgnored ==
    [][/\ \A k \in BagToSet(handlers') :
            (k.location \in Malformed /\ handlers' = Started(handlers, k)) =>
                game_state' = game_state /\ emitted' = <<>>
       /\ \A h \in AbortHandlers :
            (h.location \in Malformed
                /\ (LastStepOf(h) \/ \E k \in BagToSet(handlers') : StepOf(h, k))) =>
                game_state' = game_state /\ emitted' = <<>>]_vars

\* ---------------------------------------------------------------- C26
\* The phases in which start_timer is legal: Idle (never started, or stopped
\* or reset since), Expired, Aborted.
Idle == last_command \in {"none", "stop_timer", "reset_game"}
Expired ==
    /\ game_state.time_remaining <= 0
    /\ game_state.reception_unlocked
    /\ ~game_state.timer_running
Aborted == game_state.self_destruct_aborted /\ ~game_state.timer_running
\* This step applies start_timer.
StartApplied == handlers' = Started(handlers, Handler("start_timer", "emit", NoLocals))
\* What clients are told of a game that has just been started.
JustStarted ==
    [timer_running          |-> TRUE,
     time_remaining         |-> Duration,
     reception_unlocked     |-> FALSE,
     transmission_shut_down |-> FALSE,
     self_destruct_active   |-> FALSE,
     self_destruct_aborted  |-> FALSE]

\* C26: the step that applies start_timer in Idle, Expired or Aborted leaves
\* the game Running: timer_running true, time_remaining the full duration,
\* start_time recorded, the four flags false and both press records empty,
\* with one countdown task started; and the handler's last step broadcasts
\* timer_started carrying that state.
C26_StartLeavesRunning ==
    [][/\ (StartApplied /\ (Idle \/ Expired \/ Aborted)) =>
            /\ game_state' = [timer_running          |-> TRUE,
                              time_remaining         |-> Duration,
                              start_time             |-> now,
                              reception_unlocked     |-> FALSE,
                              transmission_shut_down |-> FALSE,
                              self_destruct_active   |-> FALSE,
                              self_destruct_aborted  |-> FALSE,
                              abort_buttons          |-> [l \in Locations |-> None]]
            /\ game_state'.start_time # None
            /\ tickers' = tickers (+) SetToBag({[pc |-> "while", tmp |-> 0]})
       /\ \A h \in BagToSet(handlers) :
            (h.op = "start_timer" /\ LastStepOf(h)) =>
                emitted'[1] = [name |-> "timer_started", to |-> "all",
                               data |-> JustStarted]]_vars

\* ---------------------------------------------------------------- C27
\* The countdown has run out and its task has ended: time_remaining is 0,
\* game_over has been broadcast and no countdown task is left.
RunOut ==
    /\ game_state.time_remaining = 0
    /\ sent["game_over"] >= 1
    /\ tickers = EmptyBag

\* C27: after start_timer, with no pause_timer, stop_timer, reset_game, other
\* start_timer or successful abort, and the countdown task scheduled fairly,
\* time_remaining eventually reaches 0, game_over is eventually broadcast and
\* the countdown loop terminates.
C27_CountdownRunsOut == (last_command = "start_timer") ~> RunOut

\* game_over has just been broadcast in a game whose self-destruct is active:
\* the countdown is at 0 and stopped, the exit unlocked, the task gone.
C27_Witness ==
    /\ Emitted("game_over")
    /\ emitted[1].data.success = FALSE
    /\ game_state.time_remaining = 0
    /\ ~game_state.timer_running
    /\ game_state.reception_unlocked
    /\ game_state.self_destruct_active
    /\ tickers = EmptyBag

\* ---------------------------------------------------------------- C28
\* Abort presses are not accepted: self-destruct is not active, or it has
\* been aborted.
PressesRefused ==
    ~game_state.self_destruct_active \/ game_state.self_destruct_aborted
\* This step is the acceptance of the transmission code.
CodeAccepted ==
    \E h \in CodeHandlers : \E k \in BagToSet(handlers') :
        h.pc = "sleep" /\ k.pc = "emit_shutdown" /\ StepOf(h, k)

\* C28: a press whose guard is evaluated while self-destruct is not active,
\* or after it has been aborted, is ignored: its handler ends there, no field
\* of game_state changes and nothing is emitted; and a press made before the
\* code is accepted is never recorded after the acceptance (so that it could
\* be paired with a later press): when the code is accepted, no press that
\* has read the clock is waiting to be recorded.
C28_PressOutsideEpisodeIgnored ==
    [][/\ \A h \in AbortHandlers :
            (h.pc = "guard" /\ PressesRefused
                /\ (LastStepOf(h) \/ \E k \in BagToSet(handlers') : StepOf(h, k))) =>
                /\ LastStepOf(h)
                /\ game_state' = game_state
                /\ emitted' = <<>>
       /\ CodeAccepted =>
            \A h \in AbortHandlers : h.pc \notin {"guard", "record"}]_vars

\* ---------------------------------------------------------------- C29
\* C29: within one game (from a start_timer to the next start_timer,
\* stop_timer or reset_game) game_over and self_destruct_aborted are never
\* both broadcast, in either order.
C29_OneTerminalOutcome ==
    ~(sent["game_over"] >= 1 /\ sent["self_destruct_aborted"] >= 1)

====
